---- MODULE Spec2Model ----
(***************************************************************************)
(* Model of the manifest rendering pipeline of kots: the base builder      *)
(* (WriteBase) and the midstream composer (WriteMidstream), as state       *)
(* machines over the rendered directories.                                  *)
(*                                                                         *)
(* A path is a sequence of path components; a file's content is a record.  *)
(* A kustomization.yaml is held in parsed form: [state, K] with state       *)
(* "absent", "ok" (parsable, K is what the parser returns) or "corrupt".    *)
(***************************************************************************)
EXTENDS Integers, Sequences, FiniteSets, TLC

VARIABLES
    m,          \* the Midstream composer instance (receiver of WriteMidstream)
    midDir,     \* whether MidstreamDir exists
    kust,       \* MidstreamDir/kustomization.yaml
    secretFile, \* MidstreamDir/secret.yaml
    patchFile,  \* MidstreamDir/pullsecrets.yaml
    edits,      \* number of hand edits made to MidstreamDir/kustomization.yaml
    procs,      \* the WriteMidstream calls that run concurrently: for each caller
                \* its position in the call (pc) and, once it has called, the
                \* composer as built (new) and as the call changes it (m), the
                \* kustomization the call read (existing), the number of
                \* kustomization writes made before it read (sawWrites), the
                \* rank of its own kustomization write (wrote), its error, and
                \* the number of calls it has made with these inputs (calls)
    b,          \* the Base instance (receiver of WriteBase)
    baseDirs,   \* the directories under BaseDir, relative to it; <<>> is BaseDir
    baseFiles,  \* the files under BaseDir: relative path -> content
    tmpl,       \* the last call of an arithmetic template function: its
                \* operands and what it returned
    ret         \* the last operation: its options, whether it found an existing
                \* kustomization (WriteMidstream) or BaseDir (WriteBase), and its error;
                \* baseDir is the BaseDir option of a WriteMidstream call

midVars == <<m, midDir, kust, secretFile, patchFile, edits, procs>>
baseVars == <<b, baseDirs, baseFiles>>
vars == <<m, midDir, kust, secretFile, patchFile, edits, procs, b, baseDirs, baseFiles, tmpl, ret>>

----------------------------------------------------------------------------
(* Bounds *)

\* longest Resources / PatchesStrategicMerge / Images list a caller computes
MaxNew == 1
\* longest DocForPatches list
MaxDocs == 1
\* hand edits to the persisted kustomization.yaml
MaxEdits == 1
\* longest list of input files of a Base
MaxFiles == 1
\* largest magnitude of an operand of a template function
MaxOperand == 2
\* bits of the integers of the model: TLC integers have 32 bits, so the
\* wrap-around of int64 and uint64 is modelled at this width
IntBits == 16

----------------------------------------------------------------------------
(* Generic helpers *)

SeqsUpTo(S, n) == UNION {[1..k -> S] : k \in 0..n}

Range(s) == {s[i] : i \in 1..Len(s)}

----------------------------------------------------------------------------
(* pkg/midstream/write.go *)

secretFilename == "secret.yaml"
patchesFilename == "pullsecrets.yaml"

\* the fixed secret name every patch document references
PullSecretName == "kotsadm-replicated-registry"

\* entries a caller computes, and entries a human adds by hand
CallerResourceNames == {"a.yaml", "b.yaml"}
CallerPatchNames == {"p.yaml"}
HandResourceNames == {"a.yaml", secretFilename}
HandPatchNames == {"custom.yaml", patchesFilename}
ImageNames == {"myapp", "other"}
ImageTags == {"old", "new"}
AllImages == [Name : ImageNames, NewTag : ImageTags]

\* a nil *corev1.Secret is "nil"
PullSecrets == {"nil", "registry-creds"}

\* documents needing pull-secret injection; Replicas stands for the rest of the spec
Docs ==
    { [APIVersion |-> "apps/v1", Kind |-> "Deployment", Name |-> "web", Replicas |-> 2],
      [APIVersion |-> "apps/v1", Kind |-> "StatefulSet", Name |-> "db", Replicas |-> 1] }

\* WriteOptions: directories as component sequences
MidstreamDirPath == <<"app", "midstream">>
BaseDirPath == <<"app", "base">>
DefaultOptions == [MidstreamDir |-> MidstreamDirPath, BaseDir |-> BaseDirPath]
\* layouts: BaseDir beside MidstreamDir, deeper under the same parent, and
\* under another root
BaseDirLayouts ==
    [MidstreamDir : {MidstreamDirPath},
     BaseDir : {BaseDirPath, <<"app", "bases", "v1">>, <<"shared", "base">>}]
\* Bases entries a caller computes, and entries a human adds by hand
CallerBases == {<<"..", "stale">>, <<"..", "base">>}
HandBases == {<<"..", "hand">>}

EmptyK == [Resources |-> <<>>, PatchesStrategicMerge |-> <<>>, Images |-> <<>>, Bases |-> <<>>]

AbsentKust == [state |-> "absent", K |-> EmptyK]
CorruptKust == [state |-> "corrupt", K |-> EmptyK]
OkKust(K) == [state |-> "ok", K |-> K]

AbsentFile == [present |-> FALSE, data |-> "", docs |-> <<>>]
SecretContent(secret) == [present |-> TRUE, data |-> secret, docs |-> <<>>]
PatchContent(docs) == [present |-> TRUE, data |-> "", docs |-> docs]
PartialContent == [present |-> TRUE, data |-> "partial", docs |-> <<>>]

NoMidstream == [present |-> FALSE, used |-> FALSE, Kustomization |-> EmptyK,
                PullSecret |-> "nil", DocForPatches |-> <<>>]

\* I/O failure injected into one call: the operation named by at fails, if the
\* call reaches it; n is how many patch documents a failing patch write leaves
NoFail == [at |-> "none", n |-> 0]
\* failures that leave the file they hit as it was
CleanFails ==
    {NoFail} \cup
    [at : {"mkdir", "secretOpen", "patchCreate", "kustomization"}, n : {0}]
\* failures in the middle of a write, which leave a part of the file
PartialFails ==
    [at : {"secretWrite", "kustomizationPartial"}, n : {0}]
    \cup [at : {"patchWrite"}, n : 0..(MaxDocs - 1)]
MidFails == CleanFails \cup PartialFails
\* failures of the patch file: it cannot be created, or the write fails after
\* n documents
PatchFails ==
    {NoFail} \cup [at : {"patchCreate"}, n : {0}]
    \cup [at : {"patchWrite"}, n : 0..MaxDocs]

\* entries of new whose value is not in existing, in new's order
findNewStrings(new, existing) ==
    SelectSeq(new, LAMBDA x : \A i \in 1..Len(existing) : existing[i] # x)

findNewPatches(new, existing) ==
    SelectSeq(new, LAMBDA x : \A i \in 1..Len(existing) : existing[i] # x)

\* entries of new whose image name is not in existing, in new's order
removeExistingImages(new, existing) ==
    SelectSeq(new, LAMBDA x : \A i \in 1..Len(existing) : existing[i].Name # x.Name)

\* mutant: the new entries are put ahead of the existing ones
mergeKustomizationNewFirst(K, existing) ==
    IF existing.state # "ok" THEN K
    ELSE [K EXCEPT
            !.Images = K.Images \o removeExistingImages(K.Images, existing.K.Images),
            !.PatchesStrategicMerge =
                findNewPatches(K.PatchesStrategicMerge, existing.K.PatchesStrategicMerge)
                \o existing.K.PatchesStrategicMerge,
            !.Resources =
                findNewStrings(K.Resources, existing.K.Resources) \o existing.K.Resources]

\* mutant: every new entry is appended, whether the existing list has it or not
mergeKustomizationNoFilter(K, existing) ==
    IF existing.state # "ok" THEN K
    ELSE [K EXCEPT
            !.Images = K.Images \o removeExistingImages(K.Images, existing.K.Images),
            !.PatchesStrategicMerge =
                existing.K.PatchesStrategicMerge \o K.PatchesStrategicMerge,
            !.Resources = existing.K.Resources \o K.Resources]

\* existing is the parsed kustomization.yaml, state "absent" standing for nil
mergeKustomization(K, existing) ==
    IF existing.state # "ok" THEN K
    ELSE [K EXCEPT
            !.Images = K.Images \o removeExistingImages(K.Images, existing.K.Images),
            !.PatchesStrategicMerge =
                existing.K.PatchesStrategicMerge
                \o findNewPatches(K.PatchesStrategicMerge, existing.K.PatchesStrategicMerge),
            !.Resources =
                existing.K.Resources \o findNewStrings(K.Resources, existing.K.Resources)]

\* mutant: without a pull secret the secret file of an earlier render is removed
writePullSecretCleans(mm, file, fail) ==
    IF mm.PullSecret = "nil" THEN [name |-> "", err |-> FALSE, file |-> AbsentFile]
    ELSE IF fail.at = "secretOpen" THEN [name |-> "", err |-> TRUE, file |-> file]
    ELSE IF fail.at = "secretWrite" THEN [name |-> "", err |-> TRUE, file |-> PartialContent]
    ELSE [name |-> secretFilename, err |-> FALSE, file |-> SecretContent(mm.PullSecret)]

\* mutant: the nil check is missing
writePullSecretUnguarded(mm, file, fail) ==
    IF fail.at = "secretOpen" THEN [name |-> "", err |-> TRUE, file |-> file]
    ELSE IF fail.at = "secretWrite" THEN [name |-> "", err |-> TRUE, file |-> PartialContent]
    ELSE [name |-> secretFilename, err |-> FALSE, file |-> SecretContent(mm.PullSecret)]

\* the file name returned, the error and the file left on disk
writePullSecret(mm, file, fail) ==
    IF mm.PullSecret = "nil" THEN [name |-> "", err |-> FALSE, file |-> file]
    ELSE IF fail.at = "secretOpen" THEN [name |-> "", err |-> TRUE, file |-> file]
    ELSE IF fail.at = "secretWrite" THEN [name |-> "", err |-> TRUE, file |-> PartialContent]
    ELSE [name |-> secretFilename, err |-> FALSE, file |-> SecretContent(mm.PullSecret)]

obejctWithPullSecret(obj, secret) ==
    [APIVersion |-> obj.APIVersion, Kind |-> obj.Kind, Name |-> obj.Name,
     ImagePullSecrets |-> <<PullSecretName>>]

\* what the loop writes into pullsecrets.yaml: the "---" line, and the YAML of
\* a document
NoDoc == [APIVersion |-> "", Kind |-> "", Name |-> "", ImagePullSecrets |-> <<>>]
Separator == [text |-> "---", doc |-> NoDoc]
Marshal(doc) == [text |-> "yaml", doc |-> doc]

\* the content of the patch file after the loop has written the first n
\* documents of DocForPatches
PatchChunks(mm, n) ==
    [j \in 1..(2 * n) |->
        IF j % 2 = 1 THEN Separator
        ELSE Marshal(obejctWithPullSecret(mm.DocForPatches[j \div 2], mm.PullSecret))]

\* mutant: without a pull secret no patch file is written
writeObjectsWithPullSecretNeedsSecret(mm, file, fail) ==
    IF Len(mm.DocForPatches) = 0 \/ mm.PullSecret = "nil"
    THEN [name |-> "", err |-> FALSE, file |-> file]
    ELSE IF fail.at = "patchCreate" THEN [name |-> "", err |-> TRUE, file |-> file]
    ELSE IF fail.at = "patchWrite" /\ fail.n < Len(mm.DocForPatches)
    THEN [name |-> "", err |-> TRUE, file |-> PatchContent(PatchChunks(mm, fail.n))]
    ELSE [name |-> patchesFilename, err |-> FALSE,
          file |-> PatchContent(PatchChunks(mm, Len(mm.DocForPatches)))]

\* mutant: the patch file is opened for appending, not created anew
writeObjectsWithPullSecretAppends(mm, file, fail) ==
    IF Len(mm.DocForPatches) = 0 THEN [name |-> "", err |-> FALSE, file |-> file]
    ELSE IF fail.at = "patchCreate" THEN [name |-> "", err |-> TRUE, file |-> file]
    ELSE IF fail.at = "patchWrite" /\ fail.n < Len(mm.DocForPatches)
    THEN [name |-> "", err |-> TRUE,
          file |-> PatchContent(file.docs \o PatchChunks(mm, fail.n))]
    ELSE [name |-> patchesFilename, err |-> FALSE,
          file |-> PatchContent(file.docs \o PatchChunks(mm, Len(mm.DocForPatches)))]

\* mutant: the check for an empty DocForPatches is missing
writeObjectsWithPullSecretUnguarded(mm, file, fail) ==
    IF fail.at = "patchCreate" THEN [name |-> "", err |-> TRUE, file |-> file]
    ELSE IF fail.at = "patchWrite" /\ fail.n < Len(mm.DocForPatches)
    THEN [name |-> "", err |-> TRUE, file |-> PatchContent(PatchChunks(mm, fail.n))]
    ELSE [name |-> patchesFilename, err |-> FALSE,
          file |-> PatchContent(PatchChunks(mm, Len(mm.DocForPatches)))]

writeObjectsWithPullSecret(mm, file, fail) ==
    IF Len(mm.DocForPatches) = 0 THEN [name |-> "", err |-> FALSE, file |-> file]
    ELSE IF fail.at = "patchCreate" THEN [name |-> "", err |-> TRUE, file |-> file]
    ELSE IF fail.at = "patchWrite" /\ fail.n < Len(mm.DocForPatches)
    THEN [name |-> "", err |-> TRUE, file |-> PatchContent(PatchChunks(mm, fail.n))]
    ELSE [name |-> patchesFilename, err |-> FALSE,
          file |-> PatchContent(PatchChunks(mm, Len(mm.DocForPatches)))]

\* length of the longest common prefix of two component sequences
RECURSIVE CommonLen(_, _)
CommonLen(p, q) ==
    IF p = <<>> \/ q = <<>> \/ Head(p) # Head(q) THEN 0
    ELSE 1 + CommonLen(Tail(p), Tail(q))

\* filepath.Rel(from, to) on clean paths with a common root; "." when they are equal
Rel(from, to) ==
    LET c == CommonLen(from, to)
        r == [i \in 1..(Len(from) - c) |-> ".."] \o SubSeq(to, c + 1, Len(to))
    IN IF r = <<>> THEN <<".">> ELSE r

\* mutant: the relative path is appended to the Bases the composer holds
writeKustomizationAppendsBase(mm, options, file, fail) ==
    LET K == [mm.Kustomization EXCEPT
                 !.Bases = Append(@, Rel(options.MidstreamDir, options.BaseDir))]
        mm2 == [mm EXCEPT !.Kustomization = K]
    IN IF fail.at = "kustomization" THEN [m |-> mm2, err |-> TRUE, file |-> file]
       ELSE IF fail.at = "kustomizationPartial"
       THEN [m |-> mm2, err |-> TRUE, file |-> CorruptKust]
       ELSE [m |-> mm2, err |-> FALSE, file |-> OkKust(K)]

\* the composer after setting Bases, the error and the file left on disk
writeKustomization(mm, options, file, fail) ==
    LET K == [mm.Kustomization EXCEPT
                 !.Bases = <<Rel(options.MidstreamDir, options.BaseDir)>>]
        mm2 == [mm EXCEPT !.Kustomization = K]
    IN IF fail.at = "kustomization" THEN [m |-> mm2, err |-> TRUE, file |-> file]
       ELSE IF fail.at = "kustomizationPartial"
       THEN [m |-> mm2, err |-> TRUE, file |-> CorruptKust]
       ELSE [m |-> mm2, err |-> FALSE, file |-> OkKust(K)]

\* mutant: the secret file is written but not referenced
addSecretResourceSkipped(mm, name) == mm

\* the secret file, when one was written, joins the newly computed Resources
addSecretResource(mm, name) ==
    IF name # "" THEN [mm EXCEPT !.Kustomization.Resources = Append(@, name)] ELSE mm

\* mutant: the patch file is written but not referenced
addPatchReferenceSkipped(mm, name) == mm

\* the patch file, when one was written, joins the newly computed patches
addPatchReference(mm, name) ==
    IF name # ""
    THEN [mm EXCEPT !.Kustomization.PatchesStrategicMerge = Append(@, name)]
    ELSE mm

\* mutant: a kustomization.yaml that cannot be parsed is taken as absent
loadExistingLenient(file) ==
    IF file.state = "ok" THEN [existing |-> file, err |-> FALSE]
    ELSE [existing |-> AbsentKust, err |-> FALSE]

\* os.Stat and ReadKustomizationFromFile: the existing kustomization, nil
\* ("absent") when there is no file, or the error when the file does not parse
loadExisting(file) ==
    IF file.state = "corrupt" THEN [existing |-> AbsentKust, err |-> TRUE]
    ELSE [existing |-> file, err |-> FALSE]

\* mutant: the kustomization is written before the errors of the secret and of
\* the patch file are looked at
WriteMidstreamResultWritesThrough(mm, options, fs, fail) ==
    IF loadExisting(fs.kust).err
    THEN [m |-> mm, fs |-> fs, err |-> "load existing kustomization"]
    ELSE IF ~fs.midDir /\ fail.at = "mkdir"
    THEN [m |-> mm, fs |-> fs, err |-> "failed to mkdir"]
    ELSE
      LET existing == loadExisting(fs.kust).existing
          fs1 == [fs EXCEPT !.midDir = TRUE]
          s == writePullSecret(mm, fs1.secretFile, fail)
          fs2 == [fs1 EXCEPT !.secretFile = s.file]
          m1 == addSecretResource(mm, s.name)
          p == writeObjectsWithPullSecret(m1, fs2.patchFile, fail)
          fs3 == [fs2 EXCEPT !.patchFile = p.file]
          m2 == addPatchReference(m1, p.name)
          m3 == [m2 EXCEPT !.Kustomization = mergeKustomization(@, existing)]
          w == writeKustomization(m3, options, fs3.kust, fail)
          fs4 == [fs3 EXCEPT !.kust = w.file]
      IN IF s.err THEN [m |-> w.m, fs |-> fs4, err |-> "failed to write secret"]
         ELSE IF p.err THEN [m |-> w.m, fs |-> fs4, err |-> "failed to write patches"]
         ELSE IF w.err THEN [m |-> w.m, fs |-> fs4, err |-> "failed to write kustomization"]
         ELSE [m |-> w.m, fs |-> fs4, err |-> "nil"]

\* the whole call: the composer and the directory it leaves, and the error
WriteMidstreamResult(mm, options, fs, fail) ==
    IF loadExisting(fs.kust).err
    THEN [m |-> mm, fs |-> fs, err |-> "load existing kustomization"]
    ELSE IF ~fs.midDir /\ fail.at = "mkdir"
    THEN [m |-> mm, fs |-> fs, err |-> "failed to mkdir"]
    ELSE
      LET existing == loadExisting(fs.kust).existing
          fs1 == [fs EXCEPT !.midDir = TRUE]
          s == writePullSecret(mm, fs1.secretFile, fail)
          fs2 == [fs1 EXCEPT !.secretFile = s.file]
          m1 == addSecretResource(mm, s.name)
          p == writeObjectsWithPullSecret(m1, fs2.patchFile, fail)
          fs3 == [fs2 EXCEPT !.patchFile = p.file]
          m2 == addPatchReference(m1, p.name)
          m3 == [m2 EXCEPT !.Kustomization = mergeKustomization(@, existing)]
          w == writeKustomization(m3, options, fs3.kust, fail)
      IN IF s.err THEN [m |-> mm, fs |-> fs2, err |-> "failed to write secret"]
         ELSE IF p.err THEN [m |-> m1, fs |-> fs3, err |-> "failed to write patches"]
         ELSE IF w.err
         THEN [m |-> w.m, fs |-> [fs3 EXCEPT !.kust = w.file],
               err |-> "failed to write kustomization"]
         ELSE [m |-> w.m, fs |-> [fs3 EXCEPT !.kust = w.file], err |-> "nil"]

----------------------------------------------------------------------------
(* Actions of the midstream composer *)

MidFs == [midDir |-> midDir, kust |-> kust, secretFile |-> secretFile, patchFile |-> patchFile]

\* A caller builds a composer holding the newly computed Kustomization, the pull
\* secret and the documents to patch. A composer renders once and is discarded
\* (no state is shared across calls), so the next one is built after the render.
NewMidstream(Ks, Secrets, DocLists) ==
    /\ ~m.present \/ m.used
    /\ \E K \in Ks, secret \in Secrets, docs \in DocLists :
         m' = [present |-> TRUE, used |-> FALSE, Kustomization |-> K,
               PullSecret |-> secret, DocForPatches |-> docs]
    /\ ret' = [op |-> "NewMidstream", err |-> "nil", existing |-> FALSE,
               overwrite |-> FALSE, exclude |-> FALSE, baseDir |-> <<>>]
    /\ UNCHANGED <<midDir, kust, secretFile, patchFile, edits, procs>>
    /\ UNCHANGED baseVars
    /\ UNCHANGED tmpl

WriteMidstream(Options, Fails) ==
    /\ m.present /\ ~m.used
    /\ \E options \in Options, fail \in Fails :
         LET r == WriteMidstreamResult(m, options, MidFs, fail)
         IN /\ m' = [r.m EXCEPT !.used = TRUE]
            /\ midDir' = r.fs.midDir
            /\ kust' = r.fs.kust
            /\ secretFile' = r.fs.secretFile
            /\ patchFile' = r.fs.patchFile
            /\ ret' = [op |-> "WriteMidstream", err |-> r.err,
                       existing |-> (kust.state = "ok"),
                       overwrite |-> FALSE, exclude |-> FALSE,
                       baseDir |-> options.BaseDir]
    /\ UNCHANGED <<edits, procs>>
    /\ UNCHANGED baseVars
    /\ UNCHANGED tmpl

\* a human adds an entry to a list of the persisted kustomization.yaml
HandEditResources ==
    /\ kust.state = "ok" /\ edits < MaxEdits
    /\ \E x \in HandResourceNames :
         kust' = [kust EXCEPT !.K.Resources = Append(@, x)]
    /\ edits' = edits + 1
    /\ ret' = [op |-> "HandEdit", err |-> "nil", existing |-> FALSE,
               overwrite |-> FALSE, exclude |-> FALSE, baseDir |-> <<>>]
    /\ UNCHANGED <<m, midDir, secretFile, patchFile, procs>>
    /\ UNCHANGED baseVars
    /\ UNCHANGED tmpl

HandEditPatches ==
    /\ kust.state = "ok" /\ edits < MaxEdits
    /\ \E x \in HandPatchNames :
         kust' = [kust EXCEPT !.K.PatchesStrategicMerge = Append(@, x)]
    /\ edits' = edits + 1
    /\ ret' = [op |-> "HandEdit", err |-> "nil", existing |-> FALSE,
               overwrite |-> FALSE, exclude |-> FALSE, baseDir |-> <<>>]
    /\ UNCHANGED <<m, midDir, secretFile, patchFile, procs>>
    /\ UNCHANGED baseVars
    /\ UNCHANGED tmpl

HandEditImages ==
    /\ kust.state = "ok" /\ edits < MaxEdits
    /\ \E x \in AllImages :
         kust' = [kust EXCEPT !.K.Images = Append(@, x)]
    /\ edits' = edits + 1
    /\ ret' = [op |-> "HandEdit", err |-> "nil", existing |-> FALSE,
               overwrite |-> FALSE, exclude |-> FALSE, baseDir |-> <<>>]
    /\ UNCHANGED <<m, midDir, secretFile, patchFile, procs>>
    /\ UNCHANGED baseVars
    /\ UNCHANGED tmpl

HandEditBases ==
    /\ kust.state = "ok" /\ edits < MaxEdits
    /\ \E x \in HandBases :
         kust' = [kust EXCEPT !.K.Bases = Append(@, x)]
    /\ edits' = edits + 1
    /\ ret' = [op |-> "HandEdit", err |-> "nil", existing |-> FALSE,
               overwrite |-> FALSE, exclude |-> FALSE, baseDir |-> <<>>]
    /\ UNCHANGED <<m, midDir, secretFile, patchFile, procs>>
    /\ UNCHANGED baseVars
    /\ UNCHANGED tmpl

----------------------------------------------------------------------------
(* WriteMidstream calls running concurrently on one MidstreamDir *)

\* the concurrent callers
Procs == {1, 2}

\* a caller that has not called yet: it has no composer and no local variable
IdleProc == [pc |-> "idle", wrote |-> 0]

\* the number of kustomization writes the concurrent calls have made
Writes == Cardinality({p \in Procs : procs[p].wrote > 0})

\* mutant: the merge reads kustomization.yaml again
existingKustomizationReread(loaded, file) == loadExisting(file).existing

\* the local variable existingKustomization at the merge: what the call read
\* when it started, whatever the file holds by now
existingKustomization(loaded, file) == loaded

\* caller p builds a composer and calls WriteMidstream, which reads the existing
\* kustomization into its local variable
Load(p, Ks, Secrets) ==
    /\ procs[p].pc = "idle"
    /\ \E K \in Ks, secret \in Secrets :
         LET mm == [present |-> TRUE, used |-> FALSE, Kustomization |-> K,
                    PullSecret |-> secret, DocForPatches |-> <<>>]
             ld == loadExisting(kust)
         IN procs' = [procs EXCEPT ![p] =
                [pc |-> IF ld.err THEN "done" ELSE "loaded",
                 new |-> mm, m |-> mm, existing |-> ld.existing,
                 sawWrites |-> Writes, wrote |-> 0, calls |-> 1,
                 err |-> IF ld.err THEN "load existing kustomization" ELSE "nil"]]
    /\ ret' = [op |-> "Load", err |-> "nil", existing |-> (kust.state = "ok"),
               overwrite |-> FALSE, exclude |-> FALSE, baseDir |-> <<>>]
    /\ UNCHANGED <<m, midDir, kust, secretFile, patchFile, edits>>
    /\ UNCHANGED baseVars
    /\ UNCHANGED tmpl

\* caller p, whose call returned nil, builds a fresh composer with the inputs of
\* that call and calls WriteMidstream again, which reads the kustomization
Reload(p) ==
    /\ procs[p].pc = "done" /\ procs[p].err = "nil" /\ procs[p].calls = 1
    /\ LET ld == loadExisting(kust)
       IN procs' = [procs EXCEPT ![p] =
              [pc |-> IF ld.err THEN "done" ELSE "loaded",
               new |-> procs[p].new, m |-> procs[p].new, existing |-> ld.existing,
               sawWrites |-> Writes, wrote |-> procs[p].wrote, calls |-> 2,
               err |-> IF ld.err THEN "load existing kustomization" ELSE "nil"]]
    /\ ret' = [op |-> "Load", err |-> "nil", existing |-> (kust.state = "ok"),
               overwrite |-> FALSE, exclude |-> FALSE, baseDir |-> <<>>]
    /\ UNCHANGED <<m, midDir, kust, secretFile, patchFile, edits>>
    /\ UNCHANGED baseVars
    /\ UNCHANGED tmpl

\* the call of p makes MidstreamDir, writes its secret and its patch file and
\* adds their names to its newly computed lists
WriteFiles(p) ==
    /\ procs[p].pc = "loaded"
    /\ LET s == writePullSecret(procs[p].m, secretFile, NoFail)
           m1 == addSecretResource(procs[p].m, s.name)
           w == writeObjectsWithPullSecret(m1, patchFile, NoFail)
           m2 == addPatchReference(m1, w.name)
       IN /\ midDir' = TRUE
          /\ secretFile' = s.file
          /\ patchFile' = w.file
          /\ procs' = [procs EXCEPT ![p].pc = "written", ![p].m = m2]
    /\ ret' = [op |-> "WriteFiles", err |-> "nil", existing |-> FALSE,
               overwrite |-> FALSE, exclude |-> FALSE, baseDir |-> <<>>]
    /\ UNCHANGED <<m, kust, edits>>
    /\ UNCHANGED baseVars
    /\ UNCHANGED tmpl

\* the call of p merges what it read with its lists, writes the kustomization
\* and returns
Persist(p) ==
    /\ procs[p].pc = "written"
    /\ LET existing == existingKustomization(procs[p].existing, kust)
           m3 == [procs[p].m EXCEPT !.Kustomization = mergeKustomization(@, existing)]
           w == writeKustomization(m3, DefaultOptions, kust, NoFail)
       IN /\ kust' = w.file
          /\ procs' = [procs EXCEPT ![p].pc = "done", ![p].m = w.m,
                                    ![p].wrote = Writes + 1]
    /\ ret' = [op |-> "Persist", err |-> "nil", existing |-> (procs[p].existing.state = "ok"),
               overwrite |-> FALSE, exclude |-> FALSE, baseDir |-> DefaultOptions.BaseDir]
    /\ UNCHANGED <<m, midDir, secretFile, patchFile, edits>>
    /\ UNCHANGED baseVars
    /\ UNCHANGED tmpl

----------------------------------------------------------------------------
(* pkg/base/write.go *)

FilePaths == {<<".", "a.yaml">>, <<"d", "b.yaml">>}
FileContents == {"v1", "v2"}
\* what the two inclusion predicates answer for a file: "kots" is a kots kind,
\* left out of the base altogether when ExcludeKotsKinds is set
FileKinds == {"both", "fsOnly", "kustOnly", "kots"}
BaseFileInputs == [Path : FilePaths, Content : FileContents, kind : FileKinds]

KustomizationPath == <<"kustomization.yaml">>

RawContent(data) == [kind |-> "raw", data |-> data, Resources |-> <<>>]
PartialRaw == [kind |-> "raw", data |-> "partial", Resources |-> <<>>]
KustomizationContent(resources) ==
    [kind |-> "kustomization", data |-> "", Resources |-> resources]
CorruptKustomization == [kind |-> "kustomization", data |-> "partial", Resources |-> <<>>]

NoBase == [present |-> FALSE, used |-> FALSE, Files |-> <<>>]

BaseFails ==
    {NoFail} \cup
    [at : {"removeAll", "kustomization", "kustomizationPartial"}, n : {0}]
    \cup [at : {"mkdir", "write", "writePartial"}, n : 1..MaxFiles]
\* the failures that hit the removal of BaseDir or the loop over the input files
LoopFails ==
    {NoFail} \cup [at : {"removeAll"}, n : {0}]
    \cup [at : {"mkdir", "write", "writePartial"}, n : 1..(MaxFiles + 1)]

\* input files for renders of several files: a list of two or more can repeat
\* a path, with contents that tell the files apart, and can hold files that only
\* one of the two inclusion predicates selects
FileListInputs ==
    { [Path |-> <<".", "a.yaml">>, Content |-> "v1", kind |-> "both"],
      [Path |-> <<".", "a.yaml">>, Content |-> "v2", kind |-> "both"],
      [Path |-> <<".", "a.yaml">>, Content |-> "v1", kind |-> "kustOnly"],
      [Path |-> <<"d", "b.yaml">>, Content |-> "v1", kind |-> "fsOnly"] }

ShouldBeIncludedInBaseFilesystem(file, excludeKotsKinds) ==
    \/ file.kind \in {"both", "fsOnly"}
    \/ file.kind = "kots" /\ ~excludeKotsKinds

ShouldBeIncludedInBaseKustomization(file, excludeKotsKinds) ==
    \/ file.kind \in {"both", "kustOnly"}
    \/ file.kind = "kots" /\ ~excludeKotsKinds

\* path.Clean of a relative path without "..": the "." components dropped
Clean(p) == SelectSeq(p, LAMBDA c : c # ".")

\* the directory part of a file path (path.Split)
DirOf(p) == SubSeq(p, 1, Len(p) - 1)

\* os.MkdirAll: the directory and all its parents
MkdirAll(dirs, d) == dirs \cup {SubSeq(d, 1, k) : k \in 0..Len(d)}

\* ioutil.WriteFile: the file created or its content replaced
WriteFile(files, p, content) ==
    [q \in (DOMAIN files) \cup {p} |-> IF q = p THEN content ELSE files[q]]

\* mutant: an existing directory is removed whatever Overwrite says
prepareRenderDirAlwaysRemoves(fs, options, fail) ==
    IF <<>> \in fs.dirs
    THEN IF fail.at = "removeAll"
         THEN [fs |-> fs, err |-> "failed to remove previous content in base"]
         ELSE [fs |-> [dirs |-> {}, files |-> <<>>], err |-> "nil"]
    ELSE [fs |-> fs, err |-> "nil"]

\* mutant: Overwrite lets the call through without removing the directory
prepareRenderDirKeepsContent(fs, options, fail) ==
    IF <<>> \in fs.dirs /\ ~options.Overwrite
    THEN [fs |-> fs, err |-> "already exists"]
    ELSE [fs |-> fs, err |-> "nil"]

\* the overwrite check: the directory removed, or the error
prepareRenderDir(fs, options, fail) ==
    IF <<>> \in fs.dirs
    THEN IF options.Overwrite
         THEN IF fail.at = "removeAll"
              THEN [fs |-> fs, err |-> "failed to remove previous content in base"]
              ELSE [fs |-> [dirs |-> {}, files |-> <<>>], err |-> "nil"]
         ELSE [fs |-> fs, err |-> "already exists"]
    ELSE [fs |-> fs, err |-> "nil"]

\* mutant: a path the list has already is not appended again
appendResourceOnce(resources, file, options) ==
    IF ShouldBeIncludedInBaseKustomization(file, options.ExcludeKotsKinds)
       /\ Clean(file.Path) \notin Range(resources)
    THEN Append(resources, Clean(file.Path))
    ELSE resources

\* kustomizeResources after the loop body has looked at file
appendResource(resources, file, options) ==
    IF ShouldBeIncludedInBaseKustomization(file, options.ExcludeKotsKinds)
    THEN Append(resources, Clean(file.Path))
    ELSE resources

\* mutant: a file that cannot be written is passed over and the loop goes on;
\* the error is returned after the last file
RECURSIVE writeFilesSkipsFailed(_, _, _, _, _, _)
writeFilesSkipsFailed(files, i, fs, resources, options, fail) ==
    IF i > Len(files) THEN [fs |-> fs, resources |-> resources, err |-> "nil"]
    ELSE
      LET file == files[i]
          writeToBase == ShouldBeIncludedInBaseFilesystem(file, options.ExcludeKotsKinds)
          resources1 == appendResource(resources, file, options)
          fileRenderPath == Clean(file.Path)
          d == DirOf(fileRenderPath)
          dirs1 == IF d \in fs.dirs THEN fs.dirs ELSE MkdirAll(fs.dirs, d)
          skipped == writeFilesSkipsFailed(files, i + 1, fs, resources1, options, fail)
      IN IF ~writeToBase THEN skipped
         ELSE IF d \notin fs.dirs /\ fail.at = "mkdir" /\ fail.n = i
         THEN [skipped EXCEPT !.err = "failed to mkdir"]
         ELSE IF fail.at \in {"write", "writePartial"} /\ fail.n = i
         THEN [skipped EXCEPT !.err = "failed to write base file"]
         ELSE writeFilesSkipsFailed(files, i + 1,
                         [dirs |-> dirs1,
                          files |-> WriteFile(fs.files, fileRenderPath,
                                              RawContent(file.Content))],
                         resources1, options, fail)

\* the loop over b.Files from file i on: the directory it leaves, the resources
\* accumulated and the error
RECURSIVE writeFiles(_, _, _, _, _, _)
writeFiles(files, i, fs, resources, options, fail) ==
    IF i > Len(files) THEN [fs |-> fs, resources |-> resources, err |-> "nil"]
    ELSE
      LET file == files[i]
          writeToBase == ShouldBeIncludedInBaseFilesystem(file, options.ExcludeKotsKinds)
          resources1 == appendResource(resources, file, options)
          fileRenderPath == Clean(file.Path)
          d == DirOf(fileRenderPath)
          dirs1 == IF d \in fs.dirs THEN fs.dirs ELSE MkdirAll(fs.dirs, d)
      IN IF ~writeToBase THEN writeFiles(files, i + 1, fs, resources1, options, fail)
         ELSE IF d \notin fs.dirs /\ fail.at = "mkdir" /\ fail.n = i
         THEN [fs |-> fs, resources |-> resources1, err |-> "failed to mkdir"]
         ELSE IF fail.at = "write" /\ fail.n = i
         THEN [fs |-> [fs EXCEPT !.dirs = dirs1], resources |-> resources1,
               err |-> "failed to write base file"]
         ELSE IF fail.at = "writePartial" /\ fail.n = i
         THEN [fs |-> [dirs |-> dirs1,
                       files |-> WriteFile(fs.files, fileRenderPath, PartialRaw)],
               resources |-> resources1, err |-> "failed to write base file"]
         ELSE writeFiles(files, i + 1,
                         [dirs |-> dirs1,
                          files |-> WriteFile(fs.files, fileRenderPath,
                                              RawContent(file.Content))],
                         resources1, options, fail)

\* k8sutil.WriteKustomizationToFile into BaseDir: the file written, or the error.
\* It makes no directory, so it fails when BaseDir does not exist.
writeBaseKustomization(fs, resources, fail) ==
    IF <<>> \notin fs.dirs \/ fail.at = "kustomization"
    THEN [fs |-> fs, err |-> "failed to write kustomization to file"]
    ELSE IF fail.at = "kustomizationPartial"
    THEN [fs |-> [fs EXCEPT !.files = WriteFile(@, KustomizationPath, CorruptKustomization)],
          err |-> "failed to write kustomization to file"]
    ELSE [fs |-> [fs EXCEPT !.files =
                     WriteFile(@, KustomizationPath, KustomizationContent(resources))],
          err |-> "nil"]

\* mutant: the resources are appended to those of the kustomization.yaml found
\* in BaseDir when the call started
WriteBaseResultMerging(bb, fs, options, fail) ==
    LET p == prepareRenderDir(fs, options, fail)
        w == writeFiles(bb.Files, 1, p.fs, <<>>, options, fail)
        old == IF KustomizationPath \in DOMAIN fs.files
               THEN fs.files[KustomizationPath].Resources ELSE <<>>
        k == writeBaseKustomization(w.fs, old \o w.resources, fail)
    IN IF p.err # "nil" THEN [fs |-> p.fs, err |-> p.err]
       ELSE IF w.err # "nil" THEN [fs |-> w.fs, err |-> w.err]
       ELSE [fs |-> k.fs, err |-> k.err]

\* the whole call: the directory it leaves and the error
WriteBaseResult(bb, fs, options, fail) ==
    LET p == prepareRenderDir(fs, options, fail)
        w == writeFiles(bb.Files, 1, p.fs, <<>>, options, fail)
        k == writeBaseKustomization(w.fs, w.resources, fail)
    IN IF p.err # "nil" THEN [fs |-> p.fs, err |-> p.err]
       ELSE IF w.err # "nil" THEN [fs |-> w.fs, err |-> w.err]
       ELSE [fs |-> k.fs, err |-> k.err]

----------------------------------------------------------------------------
(* Actions of the base builder *)

\* a caller builds a Base from the input files; a Base renders once
NewBase(Inputs, n) ==
    /\ ~b.present \/ b.used
    /\ \E files \in SeqsUpTo(Inputs, n) :
         b' = [present |-> TRUE, used |-> FALSE, Files |-> files]
    /\ ret' = [op |-> "NewBase", err |-> "nil", existing |-> FALSE,
               overwrite |-> FALSE, exclude |-> FALSE, baseDir |-> <<>>]
    /\ UNCHANGED <<baseDirs, baseFiles>>
    /\ UNCHANGED midVars
    /\ UNCHANGED tmpl

WriteBase(Fails) ==
    /\ b.present /\ ~b.used
    /\ \E options \in [Overwrite : BOOLEAN, ExcludeKotsKinds : BOOLEAN],
          fail \in Fails :
         LET r == WriteBaseResult(b, [dirs |-> baseDirs, files |-> baseFiles], options, fail)
         IN /\ baseDirs' = r.fs.dirs
            /\ baseFiles' = r.fs.files
            /\ ret' = [op |-> "WriteBase", err |-> r.err,
                       existing |-> (<<>> \in baseDirs),
                       overwrite |-> options.Overwrite,
                       exclude |-> options.ExcludeKotsKinds, baseDir |-> <<>>]
    /\ b' = [b EXCEPT !.used = TRUE]
    /\ UNCHANGED midVars
    /\ UNCHANGED tmpl

\* the caller calls WriteBase once more on the same Base, with the options of
\* the call it has just made
WriteBaseAgain(Fails) ==
    /\ b.present /\ b.used /\ ret.op = "WriteBase"
    /\ \E fail \in Fails :
         LET options == [Overwrite |-> ret.overwrite, ExcludeKotsKinds |-> ret.exclude]
             r == WriteBaseResult(b, [dirs |-> baseDirs, files |-> baseFiles], options, fail)
         IN /\ baseDirs' = r.fs.dirs
            /\ baseFiles' = r.fs.files
            /\ ret' = [op |-> "WriteBaseAgain", err |-> r.err,
                       existing |-> (<<>> \in baseDirs),
                       overwrite |-> options.Overwrite,
                       exclude |-> options.ExcludeKotsKinds, baseDir |-> <<>>]
    /\ UNCHANGED b
    /\ UNCHANGED midVars
    /\ UNCHANGED tmpl

----------------------------------------------------------------------------
(* pkg/template/static_context.go: the arithmetic template functions *)

\* A value is [kind, num, den]: the reflect kind of an operand ("int" for
\* int..int64, "uint" for uint..uint64, "float" for float32 and float64,
\* "string" for any other kind), or the type of a result ("int64", "uint64",
\* "float64", "int" for the untyped 0), or "panic" when the call panics. A
\* float is the fraction num/den; den = 0 is an infinity or NaN.
Value(k, n, d) == [kind |-> k, num |-> n, den |-> d]
Panic == Value("panic", 0, 1)

Operands ==
    {Value("int", n, 1) : n \in (-MaxOperand)..MaxOperand}
    \cup {Value("uint", n, 1) : n \in 0..MaxOperand}
    \cup {Value("float", n, d) : n \in (-MaxOperand)..MaxOperand, d \in {1, 2}}
    \cup {Value("string", 0, 1)}

NoCall == [fn |-> "none", a |-> Panic, b |-> Panic, out |-> Panic]

isFloat(val) == val.kind = "float"
isInt(val) == val.kind = "int"
isUint(val) == val.kind = "uint"

\* two's complement wrap-around of a signed and of an unsigned integer
WrapInt(x) == ((x + 2 ^ (IntBits - 1)) % (2 ^ IntBits)) - 2 ^ (IntBits - 1)
WrapUint(x) == x % (2 ^ IntBits)

\* Go's integer quotient, truncated toward zero (y # 0)
Quo(x, y) ==
    LET ax == IF x < 0 THEN -x ELSE x
        ay == IF y < 0 THEN -y ELSE y
        q == ax \div ay
    IN IF (x < 0) = (y < 0) THEN q ELSE -q

\* a fraction with a denominator that is not negative
Fraction(n, d) == IF d < 0 THEN Value("float64", -n, -d) ELSE Value("float64", n, d)

\* float64 arithmetic on fractions; a division by zero gives an infinity or NaN
FloatOp(fn, x, y) ==
    IF fn = "add" THEN Fraction(x.num * y.den + y.num * x.den, x.den * y.den)
    ELSE IF fn = "sub" THEN Fraction(x.num * y.den - y.num * x.den, x.den * y.den)
    ELSE IF fn = "mult" THEN Fraction(x.num * y.num, x.den * y.den)
    ELSE Fraction(x.num * y.den, x.den * y.num)

\* int64 and uint64 arithmetic: a division by zero panics
IntOp(fn, x, y) ==
    IF fn = "add" THEN Value("int64", WrapInt(x + y), 1)
    ELSE IF fn = "sub" THEN Value("int64", WrapInt(x - y), 1)
    ELSE IF fn = "mult" THEN Value("int64", WrapInt(x * y), 1)
    ELSE IF y = 0 THEN Panic
    ELSE Value("int64", WrapInt(Quo(x, y)), 1)

UintOp(fn, x, y) ==
    IF fn = "add" THEN Value("uint64", WrapUint(x + y), 1)
    ELSE IF fn = "sub" THEN Value("uint64", WrapUint(x - y), 1)
    ELSE IF fn = "mult" THEN Value("uint64", WrapUint(x * y), 1)
    ELSE IF y = 0 THEN Panic
    ELSE Value("uint64", x \div y, 1)

reflectToFloat(val) ==
    IF isFloat(val) \/ isInt(val) \/ isUint(val) THEN Value("float64", val.num, val.den)
    ELSE Value("float64", 0, 1)

\* val.Int() panics on a value of an unsigned kind
reflectToInt(val) ==
    IF isFloat(val) THEN Value("int64", WrapInt(Quo(val.num, val.den)), 1)
    ELSE IF isInt(val) THEN Value("int64", val.num, 1)
    ELSE IF isUint(val) THEN Panic
    ELSE Value("int64", 0, 1)

\* val.Uint() panics on a value of a signed kind; the conversion of a negative
\* float wraps around
reflectToUint(val) ==
    IF isFloat(val) THEN Value("uint64", WrapUint(Quo(val.num, val.den)), 1)
    ELSE IF isUint(val) THEN Value("uint64", val.num, 1)
    ELSE IF isInt(val) THEN Panic
    ELSE Value("uint64", 0, 1)

\* the body shared by add, sub, mult and div, on the operands x and y
arith(fn, x, y) ==
    IF isFloat(x) \/ isFloat(y) THEN FloatOp(fn, reflectToFloat(x), reflectToFloat(y))
    ELSE IF isInt(x)
    THEN IF reflectToInt(y) = Panic THEN Panic ELSE IntOp(fn, x.num, reflectToInt(y).num)
    ELSE IF isUint(x)
    THEN IF reflectToUint(y) = Panic THEN Panic ELSE UintOp(fn, x.num, reflectToUint(y).num)
    ELSE Value("int", 0, 1)

add(x, y) == arith("add", x, y)
sub(x, y) == arith("sub", x, y)
mult(x, y) == arith("mult", x, y)
div(x, y) == arith("div", x, y)

\* a template calls the function fn on x and y, which returns out or panics
Call(fn, x, y, out) ==
    /\ tmpl' = [fn |-> fn, a |-> x, b |-> y, out |-> out]
    /\ ret' = [op |-> fn, err |-> IF out = Panic THEN "panic" ELSE "nil",
               existing |-> FALSE, overwrite |-> FALSE, exclude |-> FALSE,
               baseDir |-> <<>>]
    /\ UNCHANGED midVars
    /\ UNCHANGED baseVars

Add == \E x, y \in Operands : Call("add", x, y, add(x, y))
Sub == \E x, y \in Operands : Call("sub", x, y, sub(x, y))
Mult == \E x, y \in Operands : Call("mult", x, y, mult(x, y))
Div == \E x, y \in Operands : Call("div", x, y, div(x, y))

----------------------------------------------------------------------------
(* Specifications *)

Init ==
    /\ m = NoMidstream
    /\ midDir = FALSE
    /\ kust = AbsentKust
    /\ secretFile = AbsentFile
    /\ patchFile = AbsentFile
    /\ edits = 0
    /\ procs = [p \in Procs |-> IdleProc]
    /\ b = NoBase
    /\ baseDirs = {}
    /\ baseFiles = <<>>
    /\ tmpl = NoCall
    /\ ret = [op |-> "init", err |-> "nil", existing |-> FALSE,
              overwrite |-> FALSE, exclude |-> FALSE, baseDir |-> <<>>]

\* newly computed Kustomizations that vary in Resources
ResourceInputs ==
    {[EmptyK EXCEPT !.Resources = r] : r \in SeqsUpTo(CallerResourceNames, MaxNew)}

\* newly computed Kustomizations that vary in PatchesStrategicMerge
PatchInputs ==
    {[EmptyK EXCEPT !.PatchesStrategicMerge = p] : p \in SeqsUpTo(CallerPatchNames, MaxNew)}

\* newly computed Kustomizations that vary in Images
ImageInputs ==
    {[EmptyK EXCEPT !.Images = i] : i \in SeqsUpTo(AllImages, MaxNew)}

\* renders of resources, with and without a pull secret
Next ==
    \/ NewMidstream(ResourceInputs, PullSecrets, {<<>>})
    \/ WriteMidstream({DefaultOptions}, CleanFails)
    \/ HandEditResources

Spec == Init /\ [][Next]_vars

\* renders of patches, with and without documents to patch and a pull secret
NextPatches ==
    \/ NewMidstream(PatchInputs, PullSecrets, SeqsUpTo(Docs, MaxDocs))
    \/ WriteMidstream({DefaultOptions}, CleanFails)
    \/ HandEditPatches

SpecPatches == Init /\ [][NextPatches]_vars

\* renders of image rewrites
NextImages ==
    \/ NewMidstream(ImageInputs, {"nil"}, {<<>>})
    \/ WriteMidstream({DefaultOptions}, CleanFails)
    \/ HandEditImages

SpecImages == Init /\ [][NextImages]_vars

\* newly computed Kustomizations for renders that can fail
FailureInputs ==
    {[EmptyK EXCEPT !.Resources = r] : r \in SeqsUpTo({"a.yaml"}, MaxNew)}

\* renders in which an I/O operation can fail, some in the middle of a write
NextFailures ==
    \/ NewMidstream(FailureInputs, PullSecrets, SeqsUpTo(Docs, MaxDocs))
    \/ WriteMidstream({DefaultOptions}, MidFails)

SpecFailures == Init /\ [][NextFailures]_vars

\* newly computed Kustomizations that vary in Bases
BasesInputs ==
    {[EmptyK EXCEPT !.Bases = bs] : bs \in SeqsUpTo(CallerBases, MaxNew)}

\* renders with BaseDir in several places
NextBases ==
    \/ NewMidstream(BasesInputs, PullSecrets, {<<>>})
    \/ WriteMidstream(BaseDirLayouts, {NoFail})
    \/ HandEditBases

SpecBases == Init /\ [][NextBases]_vars

\* renders of lists of documents to patch, in which the patch file can fail
NextDocs ==
    \/ NewMidstream({EmptyK}, PullSecrets, SeqsUpTo(Docs, MaxDocs + 1))
    \/ WriteMidstream({DefaultOptions}, PatchFails)

SpecDocs == Init /\ [][NextDocs]_vars

\* two callers render concurrently into a MidstreamDir that earlier renders,
\* made one at a time, have left
NextConcurrent ==
    \/ (\A p \in Procs : procs[p].pc = "idle")
          /\ NewMidstream(ResourceInputs, {"nil"}, {<<>>})
    \/ (\A p \in Procs : procs[p].pc = "idle")
          /\ WriteMidstream({DefaultOptions}, {NoFail})
    \/ \E p \in Procs : Load(p, ResourceInputs, PullSecrets)
    \/ \E p \in Procs : WriteFiles(p)
    \/ \E p \in Procs : Persist(p)

SpecConcurrent == Init /\ [][NextConcurrent]_vars

\* one caller renders twice with the same inputs into a MidstreamDir that an
\* earlier render and hand edits have left
NextRerender ==
    \/ procs[1].pc = "idle" /\ NewMidstream({EmptyK}, {"nil"}, {<<>>})
    \/ procs[1].pc = "idle" /\ WriteMidstream({DefaultOptions}, {NoFail})
    \/ procs[1].pc = "idle" /\ HandEditImages
    \/ Load(1, ImageInputs, PullSecrets)
    \/ WriteFiles(1)
    \/ Persist(1)
    \/ Reload(1)

SpecRerender == Init /\ [][NextRerender]_vars

\* renders of resources and patches in which no file operation fails
NextPullSecretPatch ==
    \/ NewMidstream(ResourceInputs \cup PatchInputs, PullSecrets, SeqsUpTo(Docs, MaxDocs))
    \/ WriteMidstream({DefaultOptions}, {NoFail})

SpecPullSecretPatch == Init /\ [][NextPullSecretPatch]_vars

\* the one input file of the base that midstream renders stand beside
FrameBaseInputs == {[Path |-> <<".", "a.yaml">>, Content |-> "v1", kind |-> "both"]}

\* renders of the midstream in which an I/O operation can fail, made after the
\* renders of the base
NextFrame ==
    \/ ~m.present /\ NewBase(FrameBaseInputs, 1)
    \/ ~m.present /\ WriteBase({NoFail})
    \/ NewMidstream(FailureInputs, PullSecrets, SeqsUpTo(Docs, MaxDocs))
    \/ WriteMidstream({DefaultOptions}, MidFails)

SpecFrame == Init /\ [][NextFrame]_vars

\* renders of the base
NextBase ==
    \/ NewBase(BaseFileInputs, MaxFiles)
    \/ WriteBase(BaseFails)

SpecBase == Init /\ [][NextBase]_vars

\* renders of lists of files, each render made twice; the loop can fail at a
\* file that is not the last
NextBaseFiles ==
    \/ NewBase(FileListInputs, MaxFiles + 1)
    \/ WriteBase(LoopFails)
    \/ WriteBaseAgain(LoopFails)

SpecBaseFiles == Init /\ [][NextBaseFiles]_vars

\* evaluations of the arithmetic template functions
NextTemplate ==
    \/ Add
    \/ Sub
    \/ Mult
    \/ Div

SpecTemplate == Init /\ [][NextTemplate]_vars

----------------------------------------------------------------------------
(* Properties *)

IsPrefix(s, t) == Len(s) <= Len(t) /\ SubSeq(t, 1, Len(s)) = s

NoDuplicates(s) == \A i, j \in 1..Len(s) : i # j => s[i] # s[j]

\* the entries of s that are not in the set S, in the order of s
RECURSIVE NotIn(_, _)
NotIn(s, S) ==
    IF s = <<>> THEN <<>>
    ELSE (IF Head(s) \in S THEN <<>> ELSE <<Head(s)>>) \o NotIn(Tail(s), S)

\* the images of s whose name is not in the set N, in the order of s
RECURSIVE NameNotIn(_, _)
NameNotIn(s, N) ==
    IF s = <<>> THEN <<>>
    ELSE (IF Head(s).Name \in N THEN <<>> ELSE <<Head(s)>>) \o NameNotIn(Tail(s), N)

\* the step is a WriteMidstream call / one that returned nil
Called == ret'.op = "WriteMidstream"
Rendered == ret'.op = "WriteMidstream" /\ ret'.err = "nil"
\* the state follows a WriteMidstream that returned nil / and merged
DidRender == ret.op = "WriteMidstream" /\ ret.err = "nil"
DidMerge == DidRender /\ ret.existing

\* the newly computed lists of the composer about to render, with the references
\* to the files the call writes
NewResources ==
    m.Kustomization.Resources
    \o (IF m.PullSecret # "nil" THEN <<secretFilename>> ELSE <<>>)
NewPatches ==
    m.Kustomization.PatchesStrategicMerge
    \o (IF Len(m.DocForPatches) > 0 THEN <<patchesFilename>> ELSE <<>>)

\* C1: re-rendering is monotonic: a successful WriteMidstream on an existing
\* kustomization keeps every resource, patch and image entry that was persisted
\* before it, in the same order, and only appends entries.
C1_RenderOnlyAppends ==
    [][(Rendered /\ kust.state = "ok") =>
          /\ IsPrefix(kust.K.Resources, kust'.K.Resources)
          /\ IsPrefix(kust.K.PatchesStrategicMerge, kust'.K.PatchesStrategicMerge)
          /\ IsPrefix(kust.K.Images, kust'.K.Images)]_vars

\* C2: with an existing kustomization, the persisted Images are the existing
\* Images unchanged, followed by the newly computed images whose name the
\* existing list does not have.
C2_ExistingImagesWin ==
    [][(Rendered /\ kust.state = "ok") =>
          kust'.K.Images =
              kust.K.Images
              \o NameNotIn(m.Kustomization.Images,
                           {kust.K.Images[i].Name : i \in 1..Len(kust.K.Images)})]_vars

\* C3: with an existing kustomization, the persisted Resources are the existing
\* Resources unchanged, followed by the newly computed entries (secret.yaml
\* included when written) that equal no existing entry, in their order; the
\* same holds of PatchesStrategicMerge.
C3_ListsMergedByAppending ==
    [][(Rendered /\ kust.state = "ok") =>
          /\ kust'.K.Resources =
                kust.K.Resources \o NotIn(NewResources, Range(kust.K.Resources))
          /\ kust'.K.PatchesStrategicMerge =
                kust.K.PatchesStrategicMerge
                \o NotIn(NewPatches, Range(kust.K.PatchesStrategicMerge))]_vars

\* a merge kept a hand-added custom.yaml ahead of the patches generated after it
C3_Witness ==
    /\ DidMerge
    /\ kust.K.PatchesStrategicMerge = <<"custom.yaml", "p.yaml", patchesFilename>>
    /\ kust.K.Resources = <<secretFilename>>

\* C4 as stated: after a WriteMidstream that merged, the persisted Resources
\* list no path more than once, for all inputs.
C4_NoDuplicateResources == DidMerge => NoDuplicates(kust.K.Resources)

\* C4 amended: when neither the existing Resources nor the newly computed
\* Resources (with secret.yaml appended) repeat a path, the merged Resources
\* repeat none.
C4_NoDuplicatesFromDistinctLists ==
    [][(Rendered /\ kust.state = "ok"
          /\ NoDuplicates(kust.K.Resources) /\ NoDuplicates(NewResources)) =>
          NoDuplicates(kust'.K.Resources)]_vars

\* a merge of lists without repeats, with secret.yaml appended by the call
C4_Witness ==
    /\ DidMerge /\ m.PullSecret # "nil"
    /\ kust.K.Resources = <<"a.yaml", "b.yaml", secretFilename>>

\* C5: after a successful WriteMidstream with a pull secret, secret.yaml is on
\* disk and the persisted Resources list it, on a first render and on a merge.
C5_SecretReferenced ==
    (DidRender /\ m.PullSecret # "nil") =>
        /\ secretFile = SecretContent(m.PullSecret)
        /\ kust.state = "ok"
        /\ secretFilename \in Range(kust.K.Resources)

\* a merge appended the reference to the secret after an existing resource
C5_Witness ==
    /\ DidMerge /\ m.PullSecret # "nil"
    /\ kust.K.Resources = <<"a.yaml", secretFilename>>

\* C6: after a successful WriteMidstream with documents to patch,
\* pullsecrets.yaml is on disk and the persisted PatchesStrategicMerge list it,
\* on a first render and on a merge.
C6_PatchReferenced ==
    (DidRender /\ Len(m.DocForPatches) > 0) =>
        /\ patchFile.present
        /\ kust.state = "ok"
        /\ patchesFilename \in Range(kust.K.PatchesStrategicMerge)

\* a merge appended the reference to the patch file after a hand-added patch
C6_Witness ==
    /\ DidMerge /\ Len(m.DocForPatches) > 0
    /\ kust.K.PatchesStrategicMerge = <<"custom.yaml", patchesFilename>>

\* C7 as stated: without a pull secret, the persisted Resources have no
\* reference to secret.yaml, whatever the existing kustomization held.
C7_NoSecretNoReference ==
    (DidRender /\ m.PullSecret = "nil") => secretFilename \notin Range(kust.K.Resources)

\* C7 amended: without a pull secret, WriteMidstream leaves secret.yaml as it
\* was and adds no reference to it: the persisted Resources list secret.yaml
\* only if the existing or the newly computed Resources did.
C7_NoSecretNoNewReference ==
    [][(Called /\ m.PullSecret = "nil") =>
          /\ secretFile' = secretFile
          /\ (ret'.err = "nil" /\ secretFilename \in Range(kust'.K.Resources)) =>
                \/ kust.state = "ok" /\ secretFilename \in Range(kust.K.Resources)
                \/ secretFilename \in Range(m.Kustomization.Resources)]_vars

\* a render without a pull secret kept the reference and the file of an earlier one
C7_Witness ==
    /\ DidMerge /\ m.PullSecret = "nil"
    /\ secretFilename \in Range(kust.K.Resources)
    /\ secretFile.present

\* what merging the caller's list new into the persisted kustomization gives
ExpectedPatches(existing, new) ==
    IF existing.state = "ok"
    THEN existing.K.PatchesStrategicMerge
         \o NotIn(new, Range(existing.K.PatchesStrategicMerge))
    ELSE new

\* C8: with no document to patch, WriteMidstream leaves pullsecrets.yaml as it
\* was, and the PatchesStrategicMerge it persists are the merge of the existing
\* list with the caller's list, with no pullsecrets.yaml added.
C8_NoDocsNoPatchFile ==
    [][(Called /\ Len(m.DocForPatches) = 0) =>
          /\ patchFile' = patchFile
          /\ ret'.err = "nil" =>
                kust'.K.PatchesStrategicMerge =
                    ExpectedPatches(kust, m.Kustomization.PatchesStrategicMerge)]_vars

\* a render without documents merged the caller's patch behind the reference
\* an earlier render left, and left the earlier patch file alone
C8_Witness ==
    /\ DidMerge /\ Len(m.DocForPatches) = 0
    /\ patchFile.present
    /\ kust.K.PatchesStrategicMerge = <<patchesFilename, "p.yaml">>

\* C9: a WriteBase on an existing BaseDir with Overwrite false returns the
\* error and changes no directory and no file, on every such call.
C9_OverwriteGuard ==
    [][(ret'.op = "WriteBase" /\ <<>> \in baseDirs /\ ~ret'.overwrite) =>
          /\ ret'.err = "already exists"
          /\ baseDirs' = baseDirs
          /\ baseFiles' = baseFiles]_vars

\* a call was refused on a rendered BaseDir
C9_Witness ==
    /\ ret.op = "WriteBase" /\ ret.err = "already exists"
    /\ b.Files # <<>>
    /\ KustomizationPath \in DOMAIN baseFiles
    /\ DOMAIN baseFiles # {KustomizationPath}

\* the files of bb selected for the base filesystem, by index
SelectedFiles(bb, exclude) ==
    {i \in 1..Len(bb.Files) : ShouldBeIncludedInBaseFilesystem(bb.Files[i], exclude)}

\* the resource paths of bb from file i on, in input order
RECURSIVE SelectedResources(_, _, _)
SelectedResources(bb, exclude, i) ==
    IF i > Len(bb.Files) THEN <<>>
    ELSE (IF ShouldBeIncludedInBaseKustomization(bb.Files[i], exclude)
          THEN <<Clean(bb.Files[i].Path)>> ELSE <<>>)
         \o SelectedResources(bb, exclude, i + 1)

\* C10: after a successful WriteBase with Overwrite on an existing BaseDir,
\* BaseDir holds exactly the files selected in this call, with the content
\* given in this call, and a kustomization.yaml of this call's resources.
C10_FullReplace ==
    [][(ret'.op = "WriteBase" /\ ret'.err = "nil" /\ ret'.overwrite /\ <<>> \in baseDirs) =>
          LET sel == SelectedFiles(b, ret'.exclude)
          IN /\ DOMAIN baseFiles' =
                   {Clean(b.Files[i].Path) : i \in sel} \cup {KustomizationPath}
             /\ \A p \in DOMAIN baseFiles' \ {KustomizationPath} :
                   \E i \in sel :
                      /\ Clean(b.Files[i].Path) = p
                      /\ baseFiles'[p] = RawContent(b.Files[i].Content)
                      /\ \A j \in sel : Clean(b.Files[j].Path) = p => j <= i
             /\ baseFiles'[KustomizationPath] =
                   KustomizationContent(SelectedResources(b, ret'.exclude, 1))
             /\ baseDirs' =
                   UNION {MkdirAll({}, DirOf(Clean(b.Files[i].Path))) : i \in sel}]_vars

\* an overwriting render replaced a rendered BaseDir
C10_Witness ==
    /\ ret.op = "WriteBase" /\ ret.err = "nil" /\ ret.overwrite /\ ret.existing
    /\ DOMAIN baseFiles = {<<"d", "b.yaml">>, KustomizationPath}

\* C11: WriteBase is idempotent under Overwrite: when a call with Overwrite set
\* has returned nil and the caller repeats it on the same files with the same
\* options, the second call, returning nil, leaves BaseDir with the very
\* directories, files and contents the first call left.
C11_OverwriteIdempotent ==
    [][(ret'.op = "WriteBaseAgain" /\ ret'.err = "nil"
          /\ ret.op = "WriteBase" /\ ret.err = "nil" /\ ret.overwrite) =>
          /\ baseDirs' = baseDirs
          /\ baseFiles' = baseFiles]_vars

\* a repeated overwriting render of two files sharing a path, whose second
\* content is the one on disk, beside a file in a subdirectory's place
C11_Witness ==
    /\ ret.op = "WriteBaseAgain" /\ ret.err = "nil" /\ ret.overwrite /\ ret.existing
    /\ Len(b.Files) = 2
    /\ b.Files[1].Path = b.Files[2].Path
    /\ b.Files[1].Content # b.Files[2].Content
    /\ \A i \in 1..2 : b.Files[i].kind = "both"
    /\ baseFiles[Clean(b.Files[2].Path)] = RawContent(b.Files[2].Content)
    /\ baseFiles[KustomizationPath].Resources =
          <<Clean(b.Files[1].Path), Clean(b.Files[2].Path)>>

\* C12: a WriteMidstream that finds a kustomization.yaml it cannot parse returns
\* the load error and writes nothing: MidstreamDir, secret.yaml,
\* pullsecrets.yaml and kustomization.yaml are as they were; it never goes on
\* as if there were no kustomization.
C12_CorruptAbortsBeforeAnyWrite ==
    [][(Called /\ kust.state = "corrupt") =>
          /\ ret'.err = "load existing kustomization"
          /\ midDir' = midDir
          /\ secretFile' = secretFile
          /\ patchFile' = patchFile
          /\ kust' = kust]_vars

\* a composer with a pull secret and documents to patch was refused on a
\* kustomization.yaml left half written, and wrote neither of its files
C12_Witness ==
    /\ ret.op = "WriteMidstream" /\ ret.err = "load existing kustomization"
    /\ kust.state = "corrupt"
    /\ m.PullSecret # "nil" /\ ~secretFile.present
    /\ Len(m.DocForPatches) > 0 /\ ~patchFile.present

\* the errors of a WriteMidstream that stopped at the directory or at one of
\* the two files the kustomization refers to
AbortErrors == {"failed to mkdir", "failed to write secret", "failed to write patches"}

\* the step wrote, in full, each of the two files the composer calls for
WroteDependentFiles ==
    /\ m.PullSecret # "nil" => secretFile' = SecretContent(m.PullSecret)
    /\ Len(m.DocForPatches) > 0 =>
          /\ patchFile'.present /\ patchFile'.data = ""
          /\ Len(patchFile'.docs) = 2 * Len(m.DocForPatches)

\* C13 as stated: kustomization.yaml is written only after secret.yaml and
\* pullsecrets.yaml were written in full; a call that fails at the directory
\* or at one of the two files leaves kustomization.yaml as it was, and the
\* persisted kustomization has no reference to the file the call failed to write.
C13_NoReferenceToFailedWrite ==
    [][Called =>
          /\ kust' # kust => WroteDependentFiles
          /\ ret'.err \in AbortErrors => kust' = kust
          /\ (ret'.err = "failed to write secret" /\ kust'.state = "ok") =>
                secretFilename \notin Range(kust'.K.Resources)
          /\ (ret'.err = "failed to write patches" /\ kust'.state = "ok") =>
                patchesFilename \notin Range(kust'.K.PatchesStrategicMerge)]_vars

\* C13 amended: kustomization.yaml is written only after secret.yaml and
\* pullsecrets.yaml were written in full; a call that fails at the directory
\* or at one of the two files leaves kustomization.yaml as it was, so it adds
\* no reference to the file it failed to write: the persisted kustomization
\* refers to that file only if it did before the call.
C13_KustomizationWrittenLast ==
    [][Called =>
          /\ kust' # kust => WroteDependentFiles
          /\ ret'.err \in AbortErrors => kust' = kust
          /\ (ret'.err = "failed to write secret" /\ kust'.state = "ok"
                 /\ secretFilename \in Range(kust'.K.Resources)) =>
                kust.state = "ok" /\ secretFilename \in Range(kust.K.Resources)
          /\ (ret'.err = "failed to write patches" /\ kust'.state = "ok"
                 /\ patchesFilename \in Range(kust'.K.PatchesStrategicMerge)) =>
                /\ kust.state = "ok"
                /\ patchesFilename \in Range(kust.K.PatchesStrategicMerge)]_vars

\* a render wrote its secret, failed in the middle of the patch file, and left
\* the kustomization of an earlier render, which refers to neither file
C13_Witness ==
    /\ ret.op = "WriteMidstream" /\ ret.err = "failed to write patches"
    /\ m.PullSecret # "nil" /\ secretFile = SecretContent(m.PullSecret)
    /\ kust.state = "ok"
    /\ secretFilename \notin Range(kust.K.Resources)
    /\ patchesFilename \notin Range(kust.K.PatchesStrategicMerge)

\* both concurrent calls have returned nil
BothReturned == \A p \in Procs : procs[p].pc = "done" /\ procs[p].err = "nil"

\* both concurrent calls read the kustomization before either wrote its own
ReadBeforeAnyWrite == \A p \in Procs : procs[p].sawWrites = 0

\* the Resources the composer of caller p brought, with the reference to its secret
ProcNewResources(p) ==
    procs[p].new.Kustomization.Resources
    \o (IF procs[p].new.PullSecret # "nil" THEN <<secretFilename>> ELSE <<>>)

\* what merging the list new into the kustomization read gives
ExpectedResources(existing, new) ==
    IF existing.state = "ok"
    THEN existing.K.Resources \o NotIn(new, Range(existing.K.Resources))
    ELSE new

\* the Resources persisted when the call of p runs to its end on the
\* kustomization both read, and the call of q runs after it
SerialResources(p, q) ==
    LET fs0 == [midDir |-> midDir, kust |-> procs[p].existing,
                secretFile |-> secretFile, patchFile |-> patchFile]
        r1 == WriteMidstreamResult(procs[p].new, DefaultOptions, fs0, NoFail)
        r2 == WriteMidstreamResult(procs[q].new, DefaultOptions, r1.fs, NoFail)
    IN r2.fs.kust.K.Resources

\* C14: concurrent WriteMidstream calls on one MidstreamDir lose updates: when
\* both calls read the kustomization before either wrote its own, the persisted
\* Resources are the merge of what was read with the entries of the call that
\* wrote last alone; what only the other call contributed is not persisted.
C14_LostUpdate ==
    \A p, q \in Procs :
       (BothReturned /\ ReadBeforeAnyWrite /\ procs[p].wrote > procs[q].wrote) =>
          /\ kust.state = "ok"
          /\ kust.K.Resources = ExpectedResources(procs[p].existing, ProcNewResources(p))

\* both calls read an existing kustomization before either wrote, both
\* returned nil, and the persisted Resources lack an entry that the two calls
\* made one after the other, in either order, persist
C14_Witness ==
    /\ BothReturned /\ ReadBeforeAnyWrite
    /\ \A p \in Procs : procs[p].existing.state = "ok"
    /\ \E e \in Range(SerialResources(1, 2)) \cap Range(SerialResources(2, 1)) :
          e \notin Range(kust.K.Resources)

\* C15: after every successful WriteMidstream the persisted Bases hold one
\* entry, the relative path from MidstreamDir to the BaseDir of this call
\* (../base when the two are siblings), whatever Bases the existing and the
\* newly computed Kustomization held.
C15_SingleRelativeBase ==
    [][Rendered =>
          /\ kust'.K.Bases = <<Rel(MidstreamDirPath, ret'.baseDir)>>
          /\ ret'.baseDir = BaseDirPath => kust'.K.Bases = << <<"..", "base">> >>]_vars

\* a render with BaseDir under another root replaced the Bases of a
\* kustomization to which an entry had been added by hand
C15_Witness ==
    /\ DidMerge /\ edits > 0
    /\ ret.baseDir = <<"shared", "base">>
    /\ kust.K.Bases = << <<"..", "..", "shared", "base">> >>

\* C16: the Resources of the kustomization.yaml a successful WriteBase writes
\* are the BaseDir-relative paths of the input files that
\* ShouldBeIncludedInBaseKustomization selects, in input order, a path listed
\* as often as the input has it, whether or not the file is also written to
\* the base filesystem.
C16_ResourcesInInputOrder ==
    [][(ret'.op = "WriteBase" /\ ret'.err = "nil") =>
          /\ KustomizationPath \in DOMAIN baseFiles'
          /\ baseFiles'[KustomizationPath] =
                KustomizationContent(SelectedResources(b, ret'.exclude, 1))]_vars

\* a render listed a.yaml twice: for a first file that is not written to the
\* base filesystem, and for a second one that is
C16_Witness ==
    /\ ret.op = "WriteBase" /\ ret.err = "nil"
    /\ Len(b.Files) = 2
    /\ b.Files[1].kind = "kustOnly" /\ b.Files[2].kind = "both"
    /\ b.Files[2].Content = "v2"
    /\ baseFiles[KustomizationPath].Resources = <<<<"a.yaml">>, <<"a.yaml">>>>
    /\ baseFiles[<<"a.yaml">>] = RawContent("v2")

\* the errors of a WriteBase that stopped at the overwrite check or in the
\* loop over the input files
BeforeKustomizationErrors ==
    {"already exists", "failed to remove previous content in base",
     "failed to mkdir", "failed to write base file"}

\* C17: every WriteBase that gets past the overwrite check and whose file
\* writes succeed ends by writing BaseDir/kustomization.yaml, holding the
\* resources accumulated in this call and nothing of an earlier
\* kustomization.yaml; so it is for every list of input files, the empty one
\* and those with no file selected for the base filesystem included.
C17_KustomizationAlwaysWritten ==
    [][(ret'.op = "WriteBase" /\ ret'.err \notin BeforeKustomizationErrors) =>
          /\ KustomizationPath \in DOMAIN baseFiles'
          /\ baseFiles'[KustomizationPath] =
                KustomizationContent(SelectedResources(b, ret'.exclude, 1))]_vars

\* the files of bb ahead of file k that are written to the base filesystem
WrittenBefore(bb, exclude, k) == {i \in SelectedFiles(bb, exclude) : i < k}

\* BaseDir after the files of bb ahead of file k were written into an empty
\* one: for each path the content of the last file that has it
FilesBefore(bb, exclude, k) ==
    LET W == WrittenBefore(bb, exclude, k)
    IN [p \in {Clean(bb.Files[i].Path) : i \in W} |->
          LET last == CHOOSE i \in W :
                         /\ Clean(bb.Files[i].Path) = p
                         /\ \A j \in W : Clean(bb.Files[j].Path) = p => j <= i
          IN RawContent(bb.Files[last].Content)]

DirsBefore(bb, exclude, k) ==
    UNION {MkdirAll({}, DirOf(Clean(bb.Files[i].Path))) : i \in WrittenBefore(bb, exclude, k)}

\* C18: a WriteBase that fails to make a directory or to write a file returns
\* at that file, say file k: BaseDir holds what the files ahead of k wrote and
\* nothing else (no later file, no kustomization.yaml, nothing of a BaseDir
\* removed under Overwrite), but for the directory made for file k and the
\* part of file k that a failed write left.
C18_AbortAtFailedFile ==
    [][(ret'.op = "WriteBase"
          /\ ret'.err \in {"failed to mkdir", "failed to write base file"}) =>
          \E k \in SelectedFiles(b, ret'.exclude) :
             LET before == FilesBefore(b, ret'.exclude, k)
                 dirs == DirsBefore(b, ret'.exclude, k)
                 pathK == Clean(b.Files[k].Path)
             IN /\ KustomizationPath \notin DOMAIN baseFiles'
                /\ \/ baseFiles' = before
                   \/ baseFiles' = WriteFile(before, pathK, PartialRaw)
                /\ \/ baseDirs' = dirs
                   \/ baseDirs' = MkdirAll(dirs, DirOf(pathK))]_vars

\* an overwriting render of two files wrote the first, made the directory of
\* the second and failed to write it: the first file stays, the earlier
\* BaseDir is gone and there is no kustomization.yaml
C18_Witness ==
    /\ ret.op = "WriteBase" /\ ret.err = "failed to write base file"
    /\ ret.overwrite /\ ret.existing
    /\ Len(b.Files) = 2
    /\ b.Files[1].kind = "both" /\ b.Files[2].kind = "fsOnly"
    /\ DOMAIN baseFiles = {<<"a.yaml">>}
    /\ baseFiles[<<"a.yaml">>] = RawContent(b.Files[1].Content)
    /\ baseDirs = {<<>>, <<"d">>}

\* C19: a WriteMidstream with documents to patch, once past the patch file,
\* leaves a pullsecrets.yaml holding, for each entry of DocForPatches in
\* order, a "---" line and then a document with the entry's APIVersion, Kind
\* and Metadata.Name and one imagePullSecrets entry naming
\* kotsadm-replicated-registry, and nothing else: what the file held before
\* is gone.
C19_PatchFileContent ==
    [][(Called /\ Len(m.DocForPatches) > 0
          /\ ret'.err \in {"nil", "failed to write kustomization"}) =>
          /\ patchFile'.present /\ patchFile'.data = ""
          /\ Len(patchFile'.docs) = 2 * Len(m.DocForPatches)
          /\ \A i \in 1..Len(m.DocForPatches) :
                /\ patchFile'.docs[2 * i - 1].text = "---"
                /\ patchFile'.docs[2 * i] =
                      [text |-> "yaml",
                       doc |-> [APIVersion |-> m.DocForPatches[i].APIVersion,
                                Kind |-> m.DocForPatches[i].Kind,
                                Name |-> m.DocForPatches[i].Name,
                                ImagePullSecrets |-> <<"kotsadm-replicated-registry">>]]]_vars

\* a render on an existing kustomization wrote the patches of a StatefulSet
\* and a Deployment, in that order
C19_Witness ==
    /\ DidMerge
    /\ Len(m.DocForPatches) = 2
    /\ m.DocForPatches[1].Kind = "StatefulSet" /\ m.DocForPatches[2].Kind = "Deployment"
    /\ Len(patchFile.docs) = 4
    /\ patchFile.docs[2].doc.Name = "db" /\ patchFile.docs[4].doc.Name = "web"

NoRepeatedNames(s) == \A i, j \in 1..Len(s) : i # j => s[i].Name # s[j].Name

Numeric(val) == val.kind \in {"int", "uint", "float"}

\* C21: Add, Sub, Mult and Div return a float64 when either operand is a
\* float; otherwise an int64 when the first operand is signed and a uint64
\* when it is unsigned, for every pairing of signed, unsigned and float
\* operands, a signed one with an unsigned one included (an integer division
\* by zero aside).
C21_TypePromotion ==
    (/\ tmpl.fn \in {"add", "sub", "mult", "div"}
     /\ Numeric(tmpl.a) /\ Numeric(tmpl.b)
     /\ ~(tmpl.fn = "div" /\ tmpl.b.num = 0)) =>
        tmpl.out.kind =
            IF isFloat(tmpl.a) \/ isFloat(tmpl.b) THEN "float64"
            ELSE IF isInt(tmpl.a) THEN "int64"
            ELSE "uint64"

C23_PatchWithoutPullSecret ==
    [][(Called /\ Len(m.DocForPatches) > 0 /\ m.PullSecret = "nil"
          /\ kust.state = "absent") =>
          /\ ret'.err = "nil"
          /\ patchFile'.present /\ patchFile'.data = ""
          /\ Len(patchFile'.docs) = 2 * Len(m.DocForPatches)
          /\ \A i \in 1..Len(m.DocForPatches) :
                patchFile'.docs[2 * i].doc.ImagePullSecrets = <<PullSecretName>>
          /\ kust'.state = "ok"
          /\ \E i \in 1..Len(kust'.K.PatchesStrategicMerge) :
                kust'.K.PatchesStrategicMerge[i] = patchesFilename
          /\ secretFile' = secretFile
          /\ \A i \in 1..Len(kust'.K.Resources) :
                kust'.K.Resources[i] # secretFilename]_vars

\* the first render into MidstreamDir, made without a pull secret, wrote the
\* patch of a document and no secret
C23_Witness ==
    /\ DidRender /\ ~ret.existing
    /\ m.PullSecret = "nil" /\ Len(m.DocForPatches) > 0
    /\ patchFile.present /\ Len(patchFile.docs) = 2 * Len(m.DocForPatches)
    /\ ~secretFile.present
    /\ kust.state = "ok"

\* C24: a WriteMidstream, whether it returns nil or an error, leaves BaseDir
\* and every file under it as they were, deletes none of secret.yaml,
\* pullsecrets.yaml and kustomization.yaml, leaves secret.yaml untouched when
\* the composer has no pull secret and pullsecrets.yaml untouched when it has
\* no documents to patch; MidstreamDir, once made, stays.
C24_WriteMidstreamFrame ==
    [][Called =>
          /\ baseDirs' = baseDirs /\ baseFiles' = baseFiles
          /\ midDir => midDir'
          /\ secretFile.present => secretFile'.present
          /\ patchFile.present => patchFile'.present
          /\ kust.state # "absent" => kust'.state # "absent"
          /\ m.PullSecret = "nil" => secretFile' = secretFile
          /\ Len(m.DocForPatches) = 0 => patchFile' = patchFile]_vars

\* beside a rendered base, a render without a pull secret and without
\* documents returned nil and left the secret.yaml and the pullsecrets.yaml
\* of an earlier render on disk
C24_Witness ==
    /\ DidMerge
    /\ m.PullSecret = "nil" /\ Len(m.DocForPatches) = 0
    /\ secretFile.present /\ patchFile.present
    /\ baseFiles # <<>> /\ <<>> \in baseDirs

\* beside a rendered base, a render failed and left the secret.yaml of an
\* earlier render on disk
C24_WitnessFailure ==
    /\ ret.op = "WriteMidstream" /\ ret.err # "nil"
    /\ m.PullSecret = "nil" /\ secretFile.present
    /\ baseFiles # <<>>

====
